---------------------------- MODULE Spec2Model ----------------------------
(***************************************************************************)
(* The alias API of app/api/views/alias.py: delete, toggle, update note,   *)
(* list activities, list contacts and create contact, run by concurrent    *)
(* request handlers over one transactional store.                          *)
(*                                                                         *)
(* A handler is cut into steps at its accesses to the store: the alias     *)
(* lookup (with the validation and the ownership check around it), every   *)
(* probe of the reply_email loop, the duplicate check, and the commit.     *)
(* Steps of different requests interleave freely.                          *)
(***************************************************************************)
EXTENDS Integers, Sequences, FiniteSets, TLC

(***************************************************************************)
(* Bounds of the model.                                                    *)
(***************************************************************************)
\* distinct values random_string(25) is drawn from
NumTokens == 2
\* contact ids the store's sequence hands out before creation stops
MaxContactId == 2
\* iterations of the probe loop (range(1000) in the source, scaled down)
NB_ATTEMPTS == 2
\* app.config.PAGE_LIMIT (set outside this file; scaled down)
PAGE_LIMIT == 2
\* page ids a caller asks for: 0 .. MaxPageId
MaxPageId == 2
\* rows of the contact table when the contact list is read
MaxRows == 4
\* rows of an alias's mail log when the activities are read
MaxLogRows == 2

\* the workers that handle requests
Procs == {1, 2}
Tokens == 1 .. NumTokens
Users == {1, 2}
AliasIds == {1, 2}

\* Python's None: a missing JSON key, a NULL column, a missing query argument
None == <<"None">>

\* app.config.EMAIL_DOMAIN
EMAIL_DOMAIN == "sl.test"

(***************************************************************************)
(* Strings that are parsed are sequences of one-character strings.         *)
(***************************************************************************)
S_empty == << >>
S_bx == <<"b", "@", "x">>
S_Bob == <<"B", " ", "<", "b", "@", "x", ">">>
S_B == <<"B">>
S_angle == <<"<", ">">>

\* what a caller may send as data["contact"]
ContactInputs == {None, S_empty, S_angle, S_bx, S_Bob}

\* Python truthiness of an optional string, and `a or b`
Falsy(v) == v = None \/ v = S_empty

PyOr(a, b) == IF Falsy(a) THEN b ELSE a

(***************************************************************************)
(* email.utils.parseaddr, as called at line 305, on the characters the     *)
(* inputs use: letters, blank, "<", ">" and "@".  It follows               *)
(* email._parseaddr.AddrlistClass: getaddress reads a phrase, then decides *)
(* on the next character.                                                  *)
(***************************************************************************)
LWS == {" "}
SPECIALS == {"<", ">", "@"}
ATOMENDS == SPECIALS \cup LWS

\* first position >= pos that is past the end or holds a character of stop
RECURSIVE ScanTo(_, _, _)
ScanTo(s, pos, stop) ==
    IF pos > Len(s) \/ s[pos] \in stop THEN pos ELSE ScanTo(s, pos + 1, stop)

\* gotonext: skip white space
RECURSIVE gotonext(_, _)
gotonext(s, pos) ==
    IF pos <= Len(s) /\ s[pos] \in LWS THEN gotonext(s, pos + 1) ELSE pos

\* getatom: the characters up to the next atom end
getatom(s, pos) ==
    LET e == ScanTo(s, pos, ATOMENDS)
    IN  [pos |-> e, val |-> SubSeq(s, pos, e - 1)]

\* getphraselist: the atoms up to the next special character
RECURSIVE getphraselist(_, _, _)
getphraselist(s, pos, plist) ==
    IF pos > Len(s) THEN [pos |-> pos, val |-> plist]
    ELSE IF s[pos] \in LWS THEN getphraselist(s, pos + 1, plist)
    ELSE IF s[pos] \in SPECIALS THEN [pos |-> pos, val |-> plist]
    ELSE LET a == getatom(s, pos)
         IN  getphraselist(s, a.pos, Append(plist, a.val))

\* getdomain: atoms up to an atom end; a second "@" voids the domain
RECURSIVE getdomain(_, _, _)
getdomain(s, pos, sdlist) ==
    IF pos > Len(s) THEN [pos |-> pos, val |-> sdlist]
    ELSE IF s[pos] \in LWS THEN getdomain(s, pos + 1, sdlist)
    ELSE IF s[pos] = "@" THEN [pos |-> pos, val |-> S_empty]
    ELSE IF s[pos] \in ATOMENDS THEN [pos |-> pos, val |-> sdlist]
    ELSE LET a == getatom(s, pos)
         IN  getdomain(s, a.pos, sdlist \o a.val)

\* the loop of getaddrspec: atoms with the white space between them kept,
\* a trailing white space dropped at the atom end that stops the loop
RECURSIVE getlocalpart(_, _, _, _)
getlocalpart(s, pos, aslist, lastws) ==
    IF pos > Len(s) THEN [pos |-> pos, val |-> aslist]
    ELSE IF s[pos] \in ATOMENDS
         THEN [pos |-> pos, val |-> SubSeq(aslist, 1, Len(aslist) - lastws)]
    ELSE LET a == getatom(s, pos)
             n == gotonext(s, a.pos)
         IN  getlocalpart(s, n, aslist \o a.val \o SubSeq(s, a.pos, n - 1),
                          n - a.pos)

getaddrspec(s, pos0) ==
    LET l == getlocalpart(s, gotonext(s, pos0), S_empty, 0)
    IN  IF l.pos > Len(s) \/ s[l.pos] # "@"
        THEN l
        ELSE LET d == getdomain(s, gotonext(s, l.pos + 1), S_empty)
             IN  [pos |-> d.pos,
                  val |-> IF d.val = S_empty THEN S_empty
                          ELSE l.val \o <<"@">> \o d.val]

\* getrouteaddr, entered at the "<": the addr-spec inside the brackets
RECURSIVE getrouteloop(_, _, _)
getrouteloop(s, pos, expectroute) ==
    IF pos > Len(s) THEN S_empty
    ELSE IF expectroute
         THEN getrouteloop(s, gotonext(s, getdomain(s, pos, S_empty).pos), FALSE)
    ELSE IF s[pos] = ">" THEN S_empty
    ELSE IF s[pos] = "@" THEN getrouteloop(s, gotonext(s, pos + 1), TRUE)
    ELSE getaddrspec(s, pos).val

getrouteaddr(s, pos) == getrouteloop(s, gotonext(s, pos + 1), FALSE)

\* getaddress: the address part of the first address of the field
getaddress(s) ==
    LET oldpos == gotonext(s, 1)
        pl == getphraselist(s, oldpos, << >>)
        pos == gotonext(s, pl.pos)
        first == IF pl.val # << >> THEN pl.val[1] ELSE S_empty
    IN  IF pos > Len(s) THEN first
        ELSE IF s[pos] = "@" THEN getaddrspec(s, oldpos).val
        ELSE IF s[pos] = "<" THEN getrouteaddr(s, pos)
        ELSE first

\* parseaddr(addr)[1]: the empty string for None and for the empty field
parseaddr(addr) == IF Falsy(addr) THEN S_empty ELSE getaddress(addr)

(***************************************************************************)
(* Request inputs.  A JSON body and the query arguments are dicts: sets of *)
(* <<key, value>> pairs; the empty dict stands for an empty or missing     *)
(* body, both falsy at `if not data`.                                      *)
(***************************************************************************)
S_vip == <<"v", "i", "p">>
S_x == <<"x">>

Get(d, k) == IF \E kv \in d : kv[1] = k
             THEN (CHOOSE kv \in d : kv[1] = k)[2]
             ELSE None

NoteBodies == {{}, {<<"note", S_vip>>}, {<<"other", S_x>>}}

ContactBodies == {{}} \cup {{<<"contact", c>>} : c \in ContactInputs \ {None}}
                      \cup {{<<"other", S_x>>}}

\* the decimal numeral of n
Numeral(n) == <<ToString(n)>>

PageArgs == {{}, {<<"page_id", S_x>>}}
                \cup {{<<"page_id", Numeral(n)>>} : n \in 0 .. MaxPageId}

\* one query of each kind: no page_id, not a number, a number
SomePageArgs == {{}, {<<"page_id", S_x>>}, {<<"page_id", Numeral(0)>>}}

\* int(v): ValueError on a non-numeral, TypeError on None
PyInt(v) == IF \E n \in 0 .. MaxPageId : Numeral(n) = v
            THEN [ok |-> TRUE, val |-> CHOOSE n \in 0 .. MaxPageId : Numeral(n) = v]
            ELSE [ok |-> FALSE, val |-> 0]

(***************************************************************************)
(* The state: the store's three tables, the contact id sequence, and each  *)
(* request handler's position and locals.                                  *)
(***************************************************************************)
VARIABLES aliases, contacts, logs, nextId, req

vars == <<aliases, contacts, logs, nextId, req>>

store == <<aliases, contacts, logs, nextId>>

S_a1 == <<"a", "1">>
S_a2 == <<"a", "2">>

InitAliases ==
    {[id |-> 1, user_id |-> 2, email |-> S_a1, enabled |-> TRUE, note |-> None],
     [id |-> 2, user_id |-> 1, email |-> S_a2, enabled |-> TRUE, note |-> None]}

\* the mail events on record: written by the mail handler, read-only here
LogRow(id, alias_id, is_reply, bounced, blocked, website_from) ==
    [id |-> id, alias_id |-> alias_id, contact_id |-> 0, when |-> 100 + id,
     is_reply |-> is_reply, bounced |-> bounced, blocked |-> blocked,
     alias |-> IF alias_id = 1 THEN S_a1 ELSE S_a2,
     website_from |-> website_from, website_email |-> S_bx]

InitLogs ==
    {LogRow(1, 1, FALSE, FALSE, FALSE, S_Bob),
     LogRow(2, 1, TRUE, FALSE, FALSE, None),
     LogRow(3, 1, FALSE, TRUE, TRUE, S_empty),
     LogRow(4, 2, FALSE, FALSE, TRUE, S_Bob)}

Idle == [pc |-> "idle", op |-> "none", user |-> 0, alias_id |-> 0,
         data |-> {}, alias |-> None, reply_email |-> None, i |-> 0,
         contact |-> None, status |-> 0, body |-> None]

Init ==
    /\ aliases = InitAliases
    /\ contacts = {}
    /\ logs = InitLogs
    /\ nextId = 1
    /\ req = [p \in Procs |-> Idle]

\* a request as it enters its handler
Enter(op, user, alias_id, data) ==
    [Idle EXCEPT !.op = op, !.user = user, !.alias_id = alias_id, !.data = data]

\* the handler returns (status, body): what is left of the request is what
\* it was asked and what it answered
Respond(r, status, body) ==
    [Idle EXCEPT !.pc = "done", !.op = r.op, !.user = r.user,
                 !.alias_id = r.alias_id, !.data = r.data,
                 !.status = status, !.body = body]

(***************************************************************************)
(* The store (app.models, app.extensions.db), which this file only calls.  *)
(***************************************************************************)
AliasExists(alias_id) == \E a \in aliases : a.id = alias_id

\* Alias.get(alias_id): the row; the lookup of an id that is not in the store
\* fails with NotFound
AliasGet(alias_id) ==
    IF AliasExists(alias_id)
    THEN [found |-> TRUE, row |-> CHOOSE a \in aliases : a.id = alias_id]
    ELSE [found |-> FALSE, row |-> None]

\* the check made on the alias's id in place of its owner's
NotOwner_AliasId(alias, user) == alias.id # user

\* the ownership check every handler makes on the row it loaded
NotOwner(alias, user) == alias.user_id # user

\* lines such as 82-85: load the alias and check the caller owns it; the
\* request goes on to nextpc with the loaded row, or ends.  No handler
\* deals with a failed lookup: NotFound is the request's outcome.
Authorize(r, nextpc) ==
    LET got == AliasGet(r.alias_id)
    IN  IF ~ got.found
        THEN Respond(r, 404, <<"NotFound">>)
        ELSE IF NotOwner(got.row, r.user)
             THEN Respond(r, 403, <<"Forbidden">>)
             ELSE [r EXCEPT !.pc = nextpc, !.alias = got.row]

\* an UPDATE with no WHERE clause: the column set in every row
AliasSet_EveryRow(alias_id, col, val) ==
    {[a EXCEPT ![col] = val] : a \in aliases}

\* UPDATE alias SET col = val WHERE id = alias_id, at commit
AliasSet(alias_id, col, val) ==
    {IF a.id = alias_id THEN [a EXCEPT ![col] = val] ELSE a : a \in aliases}

\* Alias.delete(alias_id) and commit: the row goes, and with it the contacts
\* and the logs that belong to it
AliasDelete(alias_id) ==
    /\ aliases' = {a \in aliases : a.id # alias_id}
    /\ contacts' = {c \in contacts : c.gen_email_id # alias_id}
    /\ logs' = {l \in logs : l.alias_id # alias_id}

(***************************************************************************)
(* DELETE /aliases/<alias_id>                                              *)
(***************************************************************************)
delete_alias(p, user, alias_id) ==
    /\ req[p].pc = "idle"
    /\ req' = [req EXCEPT ![p] =
                  Authorize(Enter("delete_alias", user, alias_id, {}), "commit")]
    /\ UNCHANGED store

delete_alias_commit(p) ==
    /\ req[p].pc = "commit"
    /\ req[p].op = "delete_alias"
    /\ AliasDelete(req[p].alias_id)
    /\ req' = [req EXCEPT ![p] = Respond(@, 200, <<"deleted", TRUE>>)]
    /\ UNCHANGED nextId

(***************************************************************************)
(* POST /aliases/<alias_id>/toggle                                         *)
(***************************************************************************)
toggle_alias(p, user, alias_id) ==
    /\ req[p].pc = "idle"
    /\ req' = [req EXCEPT ![p] =
                  Authorize(Enter("toggle_alias", user, alias_id, {}), "commit")]
    /\ UNCHANGED store

\* db.session.commit() of one changed column of the loaded alias; the UPDATE
\* of a row that is gone fails the request
CommitAlias(p, col, val) ==
    LET alias == req[p].alias
    IN  IF AliasExists(alias.id)
        THEN /\ aliases' = AliasSet(alias.id, col, val)
             /\ req' = [req EXCEPT ![p] =
                           Respond([@ EXCEPT !.alias = [alias EXCEPT ![col] = val]],
                                   200, <<col, val>>)]
        ELSE /\ aliases' = aliases
             /\ req' = [req EXCEPT ![p] = Respond(@, 500, <<"StaleDataError">>)]

toggle_alias_commit(p) ==
    /\ req[p].pc = "commit"
    /\ req[p].op = "toggle_alias"
    /\ CommitAlias(p, "enabled", ~ req[p].alias.enabled)
    /\ UNCHANGED <<contacts, logs, nextId>>

(***************************************************************************)
(* PUT /aliases/<alias_id>                                                 *)
(***************************************************************************)
\* the alias looked up before the body is validated
update_alias_LookupFirst(p, user, alias_id, data) ==
    /\ req[p].pc = "idle"
    /\ LET r == Enter("update_alias", user, alias_id, data)
           a == Authorize(r, "commit")
       IN  req' = [req EXCEPT ![p] =
                      IF a.pc = "done" THEN a
                      ELSE IF data = {}
                           THEN Respond(r, 400, <<"request body cannot be empty">>)
                           ELSE a]
    /\ UNCHANGED store

update_alias(p, user, alias_id, data) ==
    /\ req[p].pc = "idle"
    /\ LET r == Enter("update_alias", user, alias_id, data)
       IN  req' = [req EXCEPT ![p] =
                      IF data = {}
                      THEN Respond(r, 400, <<"request body cannot be empty">>)
                      ELSE Authorize(r, "commit")]
    /\ UNCHANGED store

update_alias_commit(p) ==
    /\ req[p].pc = "commit"
    /\ req[p].op = "update_alias"
    /\ LET new_note == Get(req[p].data, "note")
       IN  CommitAlias(p, "note", new_note)
    /\ UNCHANGED <<contacts, logs, nextId>>

(***************************************************************************)
(* Queries: ORDER BY ... DESC, then LIMIT PAGE_LIMIT OFFSET page * limit.  *)
(***************************************************************************)
\* ORDER BY id DESC: the rows of S, the greatest id first
RECURSIVE OrderByIdDesc(_)
OrderByIdDesc(S) ==
    IF S = {} THEN << >>
    ELSE LET top == CHOOSE r \in S : \A o \in S : o.id <= r.id
         IN  <<top>> \o OrderByIdDesc(S \ {top})

Min(a, b) == IF a <= b THEN a ELSE b

LimitOffset(rows, limit, offset) ==
    SubSeq(rows, offset + 1, Min(Len(rows), offset + limit))

\* get_alias_log(alias, page_id): the page of the alias's mail events, most
\* recent first
get_alias_log(alias, page_id) ==
    LimitOffset(OrderByIdDesc({l \in logs : l.alias_id = alias.id}),
                PAGE_LIMIT, page_id * PAGE_LIMIT)

(***************************************************************************)
(* GET /aliases/<alias_id>/activities                                      *)
(***************************************************************************)
\* d[k] = v
Put(d, k, v) == [x \in DOMAIN d \cup {k} |-> IF x = k THEN v ELSE d[x]]

\* blocked tested before bounced
Activity_BlockFirst(alias_log) ==
    LET activity == [x \in {"timestamp"} |-> alias_log.when]
    IN  IF alias_log.is_reply
        THEN Put(Put(Put(activity,
                 "from", alias_log.alias),
                 "to", PyOr(alias_log.website_from, alias_log.website_email)),
                 "action", "reply")
        ELSE LET a == Put(Put(activity,
                          "to", alias_log.alias),
                          "from", PyOr(alias_log.website_from,
                                       alias_log.website_email))
             IN  IF alias_log.blocked THEN Put(a, "action", "block")
                 ELSE IF alias_log.bounced THEN Put(a, "action", "bounced")
                 ELSE Put(a, "action", "forward")

\* every row given the direction of a reply
Activity_ReplyDirection(alias_log) ==
    LET a == Put(Put([x \in {"timestamp"} |-> alias_log.when],
                     "from", alias_log.alias),
                     "to", PyOr(alias_log.website_from, alias_log.website_email))
    IN  IF alias_log.is_reply THEN Put(a, "action", "reply")
        ELSE IF alias_log.bounced THEN Put(a, "action", "bounced")
        ELSE IF alias_log.blocked THEN Put(a, "action", "block")
        ELSE Put(a, "action", "forward")

\* lines 150-164: the activity of one log row
Activity(alias_log) ==
    LET activity == [x \in {"timestamp"} |-> alias_log.when]
    IN  IF alias_log.is_reply
        THEN Put(Put(Put(activity,
                 "from", alias_log.alias),
                 "to", PyOr(alias_log.website_from, alias_log.website_email)),
                 "action", "reply")
        ELSE LET a == Put(Put(activity,
                          "to", alias_log.alias),
                          "from", PyOr(alias_log.website_from,
                                       alias_log.website_email))
             IN  IF alias_log.bounced THEN Put(a, "action", "bounced")
                 ELSE IF alias_log.blocked THEN Put(a, "action", "block")
                 ELSE Put(a, "action", "forward")

\* the activities listed oldest first
Activities_Reversed(alias_logs) ==
    [k \in 1 .. Len(alias_logs) |->
        Activity(alias_logs[Len(alias_logs) + 1 - k])]

\* lines 148-166: one activity per row, in the rows' order
Activities(alias_logs) ==
    [k \in 1 .. Len(alias_logs) |-> Activity(alias_logs[k])]

\* the alias looked up before page_id is validated
PagedEnter_LookupFirst(p, op, user, alias_id, args) ==
    /\ req[p].pc = "idle"
    /\ LET r == Enter(op, user, alias_id, args)
           a == Authorize(r, "query")
       IN  req' = [req EXCEPT ![p] =
                      IF a.pc = "done" THEN a
                      ELSE IF ~ PyInt(Get(args, "page_id")).ok
                           THEN Respond(r, 400,
                                        <<"page_id must be provided in request query">>)
                           ELSE a]
    /\ UNCHANGED store

\* lines 135-144, shared with the contact list: page_id first, then the alias
PagedEnter(p, op, user, alias_id, args) ==
    /\ req[p].pc = "idle"
    /\ LET r == Enter(op, user, alias_id, args)
       IN  req' = [req EXCEPT ![p] =
                      IF ~ PyInt(Get(args, "page_id")).ok
                      THEN Respond(r, 400,
                                   <<"page_id must be provided in request query">>)
                      ELSE Authorize(r, "query")]
    /\ UNCHANGED store

get_alias_activities(p, user, alias_id, args) ==
    PagedEnter(p, "get_alias_activities", user, alias_id, args)

get_alias_activities_query(p) ==
    /\ req[p].pc = "query"
    /\ req[p].op = "get_alias_activities"
    /\ LET page_id == PyInt(Get(req[p].data, "page_id")).val
           alias_logs == get_alias_log(req[p].alias, page_id)
       IN  req' = [req EXCEPT ![p] = Respond(@, 200, Activities(alias_logs))]
    /\ UNCHANGED store

(***************************************************************************)
(* GET /aliases/<alias_id>/contacts                                        *)
(***************************************************************************)
\* fe.last_reply(): the latest reply-direction log of the contact, or None
last_reply(fe) ==
    LET replies == {l \in logs : l.contact_id = fe.id /\ l.is_reply}
    IN  IF replies = {} THEN None ELSE OrderByIdDesc(replies)[1].when

\* fe.website_send_to(): the display form around the reply address
website_send_to(fe) ==
    <<PyOr(fe.website_from, fe.website_email), fe.reply_email>>

\* the contact field taken from the parsed address alone
serialize_contact_ParsedAddress(fe) ==
    [creation_date |-> <<"date", fe.created_at>>,
     creation_timestamp |-> fe.created_at,
     last_email_sent_date |->
         IF last_reply(fe) = None THEN None ELSE <<"date", last_reply(fe)>>,
     last_email_sent_timestamp |-> last_reply(fe),
     contact |-> fe.website_email,
     reverse_alias |-> website_send_to(fe)]

\* lines 202-218
serialize_contact(fe) ==
    [creation_date |-> <<"date", fe.created_at>>,
     creation_timestamp |-> fe.created_at,
     last_email_sent_date |->
         IF last_reply(fe) = None THEN None ELSE <<"date", last_reply(fe)>>,
     last_email_sent_timestamp |-> last_reply(fe),
     contact |-> PyOr(fe.website_from, fe.website_email),
     reverse_alias |-> website_send_to(fe)]

\* the offset taken as page_id, not page_id * PAGE_LIMIT
ContactPage_OffsetPageId(alias, page_id) ==
    LimitOffset(OrderByIdDesc({c \in contacts : c.gen_email_id = alias.id}),
                PAGE_LIMIT, page_id)

\* lines 222-227: the query's page
ContactPage(alias, page_id) ==
    LimitOffset(OrderByIdDesc({c \in contacts : c.gen_email_id = alias.id}),
                PAGE_LIMIT, page_id * PAGE_LIMIT)

\* lines 221-233
get_alias_contacts(alias, page_id) ==
    LET q == ContactPage(alias, page_id)
    IN  [k \in 1 .. Len(q) |-> serialize_contact(q[k])]

get_alias_contacts_route(p, user, alias_id, args) ==
    PagedEnter(p, "get_alias_contacts_route", user, alias_id, args)

get_alias_contacts_query(p) ==
    /\ req[p].pc = "query"
    /\ req[p].op = "get_alias_contacts_route"
    /\ LET page_id == PyInt(Get(req[p].data, "page_id")).val
       IN  req' = [req EXCEPT ![p] =
                      Respond(@, 200, get_alias_contacts(req[p].alias, page_id))]
    /\ UNCHANGED store

(***************************************************************************)
(* POST /aliases/<alias_id>/contacts                                       *)
(***************************************************************************)
\* f"ra+{random_string(25)}@{EMAIL_DOMAIN}" for one draw of random_string
ReplyEmail(token) == <<"ra+", ToString(token), "@", EMAIL_DOMAIN>>

\* Contact.get_by(reply_email=reply_email)
ContactByReplyEmail(reply_email) ==
    {c \in contacts : c.reply_email = reply_email}

\* the duplicate looked up by the raw form in place of the parsed address
ContactByAliasAndEmail_Raw(gen_email_id, website_email) ==
    {c \in contacts : c.gen_email_id = gen_email_id
                      /\ c.website_from = website_email}

\* Contact.get_by(gen_email_id=..., website_email=...)
ContactByAliasAndEmail(gen_email_id, website_email) ==
    {c \in contacts : c.gen_email_id = gen_email_id
                      /\ c.website_email = website_email}

\* a contact table whose reply_email column is not unique
Violations_ReplyEmailFree(row) ==
    (IF \E c \in contacts : /\ c.gen_email_id = row.gen_email_id
                            /\ c.website_email = row.website_email
     THEN {"uq_gen_email_id_website_email"} ELSE {})
    \cup (IF ~ AliasExists(row.gen_email_id) THEN {"fk_gen_email_id"} ELSE {})

\* a contact table with no foreign key to the alias table
Violations_NoForeignKey(row) ==
    (IF \E c \in contacts : c.reply_email = row.reply_email
     THEN {"uq_reply_email"} ELSE {})
    \cup (IF \E c \in contacts : /\ c.gen_email_id = row.gen_email_id
                                 /\ c.website_email = row.website_email
          THEN {"uq_gen_email_id_website_email"} ELSE {})

\* the constraints of the contact table that an INSERT of row would break:
\* reply_email unique, (gen_email_id, website_email) unique, the owning
\* alias present
Violations(row) ==
    (IF \E c \in contacts : c.reply_email = row.reply_email
     THEN {"uq_reply_email"} ELSE {})
    \cup (IF \E c \in contacts : /\ c.gen_email_id = row.gen_email_id
                                 /\ c.website_email = row.website_email
          THEN {"uq_gen_email_id_website_email"} ELSE {})
    \cup (IF ~ AliasExists(row.gen_email_id) THEN {"fk_gen_email_id"} ELSE {})

\* lines 285-299: validation, the alias, and the first reply_email
create_contact_route(p, user, alias_id, data, token) ==
    /\ req[p].pc = "idle"
    /\ nextId <= MaxContactId
    /\ LET r == Enter("create_contact_route", user, alias_id, data)
           a == Authorize(r, "loop")
       IN  req' = [req EXCEPT ![p] =
                      IF data = {}
                      THEN Respond(r, 400, <<"request body cannot be empty">>)
                      ELSE IF a.pc = "loop"
                           THEN [a EXCEPT !.reply_email = ReplyEmail(token)]
                           ELSE a]
    /\ UNCHANGED store

\* a loop with no break: every iteration runs, whatever the probes find
create_contact_probe_NoBreak(p, token) ==
    /\ req[p].pc = "loop"
    /\ LET reply_email == ReplyEmail(token)
           i == req[p].i + 1
       IN  req' = [req EXCEPT ![p] =
                      [@ EXCEPT !.reply_email = reply_email,
                                !.i = i,
                                !.pc = IF i = NB_ATTEMPTS
                                       THEN "check" ELSE "loop"]]
    /\ UNCHANGED store

\* a loop that gives up when its last candidate collides too
create_contact_probe_FailWhenExhausted(p, token) ==
    /\ req[p].pc = "loop"
    /\ LET reply_email == ReplyEmail(token)
           i == req[p].i + 1
           absent == ContactByReplyEmail(reply_email) = {}
       IN  req' = [req EXCEPT ![p] =
                      IF ~ absent /\ i = NB_ATTEMPTS
                      THEN Respond(@, 500, <<"no reply_email available">>)
                      ELSE [@ EXCEPT !.reply_email = reply_email,
                                     !.i = i,
                                     !.pc = IF absent THEN "check" ELSE "loop"]]
    /\ UNCHANGED store

\* lines 300-303: one iteration of the loop, which ends at the first address
\* that no contact holds, or after NB_ATTEMPTS iterations
create_contact_probe(p, token) ==
    /\ req[p].pc = "loop"
    /\ LET reply_email == ReplyEmail(token)
           i == req[p].i + 1
       IN  req' = [req EXCEPT ![p] =
                      [@ EXCEPT !.reply_email = reply_email,
                                !.i = i,
                                !.pc = IF ContactByReplyEmail(reply_email) = {}
                                          \/ i = NB_ATTEMPTS
                                       THEN "check" ELSE "loop"]]
    /\ UNCHANGED store

\* lines 311-316: the row Contact.create adds to the session
NewContact(alias, contact_email, website_email, reply_email) ==
    [gen_email_id |-> alias.id,
     website_email |-> website_email,
     website_from |-> contact_email,
     reply_email |-> reply_email]

\* lines 295, 305-316: the duplicate check, then the new row in the session
create_contact_check(p) ==
    /\ req[p].pc = "check"
    /\ LET alias == req[p].alias
           contact_email == Get(req[p].data, "contact")
           website_email == parseaddr(contact_email)
       IN  req' = [req EXCEPT ![p] =
                      IF ContactByAliasAndEmail(alias.id, website_email) # {}
                      THEN Respond(@, 409, <<"Contact already added">>)
                      ELSE [@ EXCEPT !.pc = "commit",
                                     !.contact = NewContact(alias, contact_email,
                                                            website_email,
                                                            req[p].reply_email)]]
    /\ UNCHANGED store

\* the row as the store keeps it: the next id, stamped in creation order
Stored(row) ==
    [id |-> nextId, created_at |-> nextId,
     gen_email_id |-> row.gen_email_id,
     website_email |-> row.website_email,
     website_from |-> row.website_from,
     reply_email |-> row.reply_email]

\* lines 319-321: the commit sends the INSERT; a broken constraint raises
\* IntegrityError, which nothing in the handler catches
create_contact_commit(p) ==
    /\ req[p].pc = "commit"
    /\ req[p].op = "create_contact_route"
    /\ LET row == req[p].contact
       IN  IF Violations(row) = {}
           THEN /\ contacts' = contacts \cup {Stored(row)}
                /\ nextId' = nextId + 1
                /\ req' = [req EXCEPT ![p] =
                              Respond(@, 201, serialize_contact(Stored(row)))]
           ELSE /\ UNCHANGED <<contacts, nextId>>
                /\ req' = [req EXCEPT ![p] =
                              Respond(@, 500, <<"IntegrityError", Violations(row)>>)]
    /\ UNCHANGED <<aliases, logs>>

(***************************************************************************)
(* The response is sent and the worker takes the next request.             *)
(***************************************************************************)
Return(p) ==
    /\ req[p].pc = "done"
    /\ req' = [req EXCEPT ![p] = Idle]
    /\ UNCHANGED store

\* one request at a time, over the whole API and every input
Next ==
    \/ \E user \in Users, alias_id \in AliasIds :
          \/ delete_alias(1, user, alias_id)
          \/ toggle_alias(1, user, alias_id)
          \/ \E data \in NoteBodies : update_alias(1, user, alias_id, data)
          \/ \E args \in SomePageArgs : get_alias_activities(1, user, alias_id, args)
          \/ \E args \in SomePageArgs : get_alias_contacts_route(1, user, alias_id, args)
          \/ \E data \in ContactBodies, token \in Tokens :
                create_contact_route(1, user, alias_id, data, token)
    \/ delete_alias_commit(1)
    \/ toggle_alias_commit(1)
    \/ update_alias_commit(1)
    \/ get_alias_activities_query(1)
    \/ get_alias_contacts_query(1)
    \/ \E token \in Tokens : create_contact_probe(1, token)
    \/ create_contact_check(1)
    \/ create_contact_commit(1)
    \/ Return(1)

Spec == Init /\ [][Next]_vars

\* create-contact and delete-alias requests, handled by two workers whose
\* steps interleave
RacingBodies == {{<<"contact", c>>} : c \in {S_bx, S_Bob}}

NextConcurrent ==
    \/ \E p \in Procs, user \in Users, alias_id \in AliasIds :
          \/ delete_alias(p, user, alias_id)
          \/ \E data \in RacingBodies, token \in Tokens :
                create_contact_route(p, user, alias_id, data, token)
    \/ \E p \in Procs :
          \/ delete_alias_commit(p)
          \/ \E token \in Tokens : create_contact_probe(p, token)
          \/ create_contact_check(p)
          \/ create_contact_commit(p)
          \/ Return(p)

SpecConcurrent == Init /\ [][NextConcurrent]_vars

(***************************************************************************)
(* Reading the contact list: the store holds any table of up to MaxRows    *)
(* contacts that earlier requests can have created, and requests list it.  *)
(***************************************************************************)
\* the k-th correspondent, as sent
RawOf(k) == IF k % 4 = 1 THEN S_Bob
            ELSE IF k % 4 = 2 THEN S_B
            ELSE IF k % 4 = 3 THEN None
            ELSE S_x

\* the contact with id k of an alias, as create_contact_route stores it
RowOf(k, alias_id) ==
    [id |-> k, created_at |-> k, gen_email_id |-> alias_id,
     website_email |-> parseaddr(RawOf(k)), website_from |-> RawOf(k),
     reply_email |-> ReplyEmail(k)]

ContactTables ==
    UNION {{{RowOf(k, f[k]) : k \in 1 .. n} : f \in [1 .. n -> AliasIds]}
           : n \in 0 .. MaxRows}

InitContacts ==
    /\ aliases = InitAliases
    /\ contacts \in ContactTables
    /\ logs = InitLogs
    /\ nextId = Cardinality(contacts) + 1
    /\ req = [p \in Procs |-> Idle]

NextContacts ==
    \/ \E user \in Users, alias_id \in AliasIds, args \in PageArgs :
          get_alias_contacts_route(1, user, alias_id, args)
    \/ get_alias_contacts_query(1)
    \/ Return(1)

SpecContacts == InitContacts /\ [][NextContacts]_vars

(***************************************************************************)
(* Reading the activities: the log of alias 1 holds any rows, of every     *)
(* combination of the three flags, with and without a raw From.            *)
(***************************************************************************)
RawFroms == {None, S_empty, S_Bob}

LogRowsOf(id) ==
    {LogRow(id, 1, is_reply, bounced, blocked, website_from) :
        is_reply \in BOOLEAN, bounced \in BOOLEAN, blocked \in BOOLEAN,
        website_from \in RawFroms}

LogTables ==
    UNION {{{f[k] : k \in 1 .. n} :
               f \in {g \in [1 .. n -> UNION {LogRowsOf(k) : k \in 1 .. n}] :
                         \A k \in 1 .. n : g[k].id = k}}
           : n \in 0 .. MaxLogRows}

InitActivities ==
    /\ aliases = InitAliases
    /\ contacts = {}
    /\ \E t \in LogTables :
          logs = t \cup {LogRow(MaxLogRows + 1, 2, FALSE, FALSE, TRUE, S_Bob)}
    /\ nextId = 1
    /\ req = [p \in Procs |-> Idle]

NextActivities ==
    \/ \E user \in Users, alias_id \in AliasIds, args \in PageArgs :
          get_alias_activities(1, user, alias_id, args)
    \/ get_alias_activities_query(1)
    \/ Return(1)

SpecActivities == InitActivities /\ [][NextActivities]_vars

(***************************************************************************)
(* Toggle requests by the owners, handled by two workers whose steps       *)
(* interleave.                                                             *)
(***************************************************************************)
NextToggle ==
    \/ \E p \in Procs, user \in Users, alias_id \in AliasIds :
          toggle_alias(p, user, alias_id)
    \/ \E p \in Procs :
          \/ toggle_alias_commit(p)
          \/ Return(p)

SpecToggle == Init /\ [][NextToggle]_vars

(***************************************************************************)
(* The properties.  A request enters its handler in worker p's step from   *)
(* "idle"; what it asked is in req'[p].                                    *)
(***************************************************************************)
Enters(p) == req[p].pc = "idle" /\ req'[p].pc # "idle"

\* the request passes its handler's input validation: a non-empty JSON body
\* for update-note and create-contact, an integer page_id for the two lists
PassesValidation(r) ==
    IF r.op \in {"update_alias", "create_contact_route"}
    THEN r.data # {}
    ELSE IF r.op \in {"get_alias_activities", "get_alias_contacts_route"}
         THEN PyInt(Get(r.data, "page_id")).ok
         ELSE TRUE

OwnerOf(alias_id) == (CHOOSE a \in aliases : a.id = alias_id).user_id

StoreUnchanged == aliases' = aliases /\ contacts' = contacts /\ logs' = logs

\* the address create-contact parses out of the request's body
AskedEmail(r) == parseaddr(Get(r.data, "contact"))

IsDone(p, op) == req[p].pc = "done" /\ req[p].op = op

\* C1: in every reachable state, under any interleaving of create-contact
\* (and delete-alias) requests, the stored contacts have pairwise distinct
\* reply_email values and pairwise distinct (gen_email_id, website_email).
C1_Uniqueness ==
    \A c \in contacts, d \in contacts :
        c # d => /\ c.reply_email # d.reply_email
                 /\ <<c.gen_email_id, c.website_email>>
                        # <<d.gen_email_id, d.website_email>>

\* two contacts are stored, for the same correspondent on different aliases
C1_Witness ==
    \E c \in contacts, d \in contacts :
        /\ c.gen_email_id # d.gen_email_id
        /\ c.website_email = d.website_email

\* C2, as claimed: of two create-contact requests by the owner for the same
\* alias and the same parsed address, when one has succeeded with 201 the
\* other ends with 409 (never 201, never an unhandled failure).
C2_LoserGetsConflict ==
    \A p \in Procs, q \in Procs :
        (/\ p # q
         /\ IsDone(p, "create_contact_route")
         /\ IsDone(q, "create_contact_route")
         /\ req[p].alias_id = req[q].alias_id
         /\ AliasExists(req[p].alias_id)
         /\ AskedEmail(req[p]) = AskedEmail(req[q])
         /\ req[p].status = 201
         /\ req[q].status \in {201, 409, 500})
        => req[q].status = 409

\* C3, as claimed: every request by a caller who is not the alias's owner
\* ends with 403 and leaves the store unchanged.
C3_NonOwnerForbidden ==
    [][\A p \in Procs :
          (/\ Enters(p)
           /\ AliasExists(req'[p].alias_id)
           /\ OwnerOf(req'[p].alias_id) # req'[p].user)
          => (/\ req'[p].pc = "done"
              /\ req'[p].status = 403
              /\ StoreUnchanged)]_vars

\* C3, amended: a request by a caller who is not the alias's owner ends at
\* once, with 403 when it passes its handler's input validation and with 400
\* when it does not, and leaves the store unchanged.
C3_NonOwnerRejected ==
    [][\A p \in Procs :
          (/\ Enters(p)
           /\ AliasExists(req'[p].alias_id)
           /\ OwnerOf(req'[p].alias_id) # req'[p].user)
          => (/\ req'[p].pc = "done"
              /\ req'[p].status = IF PassesValidation(req'[p]) THEN 403 ELSE 400
              /\ StoreUnchanged)]_vars

\* a non-owner's create-contact was refused, the alias is still there and
\* holds no contact
C3_Witness ==
    \E p \in Procs :
        /\ IsDone(p, "create_contact_route")
        /\ req[p].status = 403
        /\ AliasExists(req[p].alias_id)
        /\ OwnerOf(req[p].alias_id) # req[p].user
        /\ \A c \in contacts : c.gen_email_id # req[p].alias_id

\* C4: when the duplicate check of create-contact finds a contact with the
\* request's (alias id, parsed website_email) in the store, the request ends
\* with 409; and no step of a request before its commit changes the stored
\* contacts, so the request leaves them exactly as they were.
C4_DuplicateRejected ==
    [][\A p \in Procs :
          (/\ req[p].op = "create_contact_route"
           /\ req[p].pc \in {"loop", "check"}
           /\ req'[p] # req[p])
          => (/\ contacts' = contacts
              /\ (/\ req[p].pc = "check"
                  /\ \E c \in contacts :
                        /\ c.gen_email_id = req[p].alias_id
                        /\ c.website_email = AskedEmail(req[p]))
                 => (req'[p].pc = "done" /\ req'[p].status = 409))]_vars

\* a create-contact was refused as a duplicate of a contact sent in another
\* raw form
C4_Witness ==
    \E p \in Procs :
        /\ IsDone(p, "create_contact_route")
        /\ req[p].status = 409
        /\ \E c \in contacts :
              /\ c.gen_email_id = req[p].alias_id
              /\ c.website_email = AskedEmail(req[p])
              /\ c.website_from # Get(req[p].data, "contact")

\* the rows a finished list-activities request was answered from (the log
\* does not change while activities are read)
FetchedLogs(r) ==
    get_alias_log(AliasGet(r.alias_id).row, PyInt(Get(r.data, "page_id")).val)

\* the action the table of the four cases gives a row
TableAction(row) ==
    CASE row.is_reply -> "reply"
      [] ~ row.is_reply /\ row.bounced -> "bounced"
      [] ~ row.is_reply /\ ~ row.bounced /\ row.blocked -> "block"
      [] ~ row.is_reply /\ ~ row.bounced /\ ~ row.blocked -> "forward"

Present(v) == v # None /\ v # S_empty

Correspondent(row) ==
    IF Present(row.website_from) THEN row.website_from ELSE row.website_email

\* C6: the direction of every activity follows is_reply: a reply goes from
\* the alias address to the correspondent (the raw From when present, else
\* the email), every other row from the correspondent to the alias address;
\* from and to are both set.
C6_Direction ==
    \A p \in Procs :
        (IsDone(p, "get_alias_activities") /\ req[p].status = 200)
        => LET rows == FetchedLogs(req[p])
           IN  /\ Len(req[p].body) = Len(rows)
               /\ \A k \in 1 .. Len(rows) :
                     LET activity == req[p].body[k]
                     IN  /\ {"from", "to"} \subseteq DOMAIN activity
                         /\ IF rows[k].is_reply
                            THEN /\ activity["from"] = rows[k].alias
                                 /\ activity["to"] = Correspondent(rows[k])
                            ELSE /\ activity["from"] = Correspondent(rows[k])
                                 /\ activity["to"] = rows[k].alias

\* a reply with no raw From goes to the correspondent's email, and a bounced
\* row with a raw From comes from it
C6_Witness ==
    \E p \in Procs :
        /\ IsDone(p, "get_alias_activities")
        /\ req[p].status = 200
        /\ LET rows == FetchedLogs(req[p])
           IN  /\ Len(rows) = 2
               /\ rows[1].is_reply /\ rows[1].website_from = None
               /\ req[p].body[1]["to"] = rows[1].website_email
               /\ ~ rows[2].is_reply /\ rows[2].bounced
               /\ req[p].body[2]["from"] = S_Bob
               /\ req[p].body[2]["to"] = rows[2].alias

\* C7, as claimed: every stored contact has a non-empty website_email.
C7_WebsiteEmailNonEmpty ==
    \A c \in contacts : c.website_email # S_empty

\* C8, as claimed: a create-contact whose insert breaks the uniqueness of
\* reply_email ends with 409, not with an unhandled failure.
C8_ReplyCollisionIsConflict ==
    \A p \in Procs :
        (/\ IsDone(p, "create_contact_route")
         /\ req[p].status \notin {201, 400, 403, 404, 409})
        => "uq_reply_email" \notin req[p].body[2]

ContactsOf(alias_id) == {c \in contacts : c.gen_email_id = alias_id}

Ranked(alias_id, n) ==
    CHOOSE c \in ContactsOf(alias_id) :
        Cardinality({d \in ContactsOf(alias_id) : d.id > c.id}) = n

\* C10: list-contacts by the owner, for page_id >= 0, answers 200 with the
\* contacts of the alias taken in descending id order at the positions
\* [page_id * PAGE_LIMIT, page_id * PAGE_LIMIT + PAGE_LIMIT); the list is
\* empty when page_id * PAGE_LIMIT is at or beyond their number.
C10_ContactPage ==
    \A p \in Procs :
        (/\ IsDone(p, "get_alias_contacts_route")
         /\ PassesValidation(req[p])
         /\ OwnerOf(req[p].alias_id) = req[p].user)
        => LET page_id == PyInt(Get(req[p].data, "page_id")).val
               first == page_id * PAGE_LIMIT
               n == Cardinality(ContactsOf(req[p].alias_id))
               size == IF first >= n THEN 0
                       ELSE IF n - first < PAGE_LIMIT THEN n - first
                       ELSE PAGE_LIMIT
           IN  /\ req[p].status = 200
               /\ Len(req[p].body) = size
               /\ \A k \in 1 .. size :
                     req[p].body[k]
                        = serialize_contact(Ranked(req[p].alias_id, first + k - 1))

\* a second page that holds the oldest of three contacts of the alias, while
\* the table holds another alias's contact too
C10_Witness ==
    \E p \in Procs :
        /\ IsDone(p, "get_alias_contacts_route")
        /\ req[p].status = 200
        /\ Get(req[p].data, "page_id") = Numeral(1)
        /\ Len(req[p].body) = 1
        /\ Cardinality(contacts) > Cardinality(ContactsOf(req[p].alias_id))

\* C11: a successful create-contact sent a non-empty raw string r answers
\* with contact = r exactly as sent (not the parsed address) and with
\* last_email_sent_date and last_email_sent_timestamp null; and every
\* serialized contact, in the answer of create-contact and of list-contacts,
\* has contact = website_from when that is present, website_email otherwise.
C11_ContactIsRawForm ==
    \A p \in Procs :
        /\ (IsDone(p, "create_contact_route") /\ req[p].status = 201)
           => LET r == Get(req[p].data, "contact")
              IN  /\ Present(r)
                     => /\ req[p].body.contact = r
                        /\ req[p].body.last_email_sent_date = None
                        /\ req[p].body.last_email_sent_timestamp = None
                  /\ ~ Present(r) => req[p].body.contact = AskedEmail(req[p])
        /\ (IsDone(p, "get_alias_contacts_route") /\ req[p].status = 200)
           => \A k \in 1 .. Len(req[p].body) :
                 \E c \in contacts :
                    /\ c.id = req[p].body[k].creation_timestamp
                    /\ req[p].body[k].contact = Correspondent(c)

\* a contact sent as a display name with an address in brackets was created,
\* and the answer carries the whole string, which is not the parsed address
C11_Witness ==
    \E p \in Procs :
        /\ IsDone(p, "create_contact_route")
        /\ req[p].status = 201
        /\ Get(req[p].data, "contact") = S_Bob
        /\ req[p].body.contact = S_Bob
        /\ AskedEmail(req[p]) = S_bx
        /\ req[p].body.last_email_sent_timestamp = None

\* where each worker is in its handler: the step it is at and the probes it
\* has made; every step of a handler changes it
position == [p \in Procs |-> <<req[p].pc, req[p].i>>]

\* C12, as claimed: the duplicate check of create-contact comes before the
\* generator of reply_email, so a request that the duplicate check rejects
\* has generated no reply_email and has made no lookup of one in the store.
C12_DuplicateCheckBeforeGenerator ==
    [][\A p \in Procs :
          (/\ req[p].op = "create_contact_route"
           /\ req[p].pc = "check"
           /\ req'[p].pc = "done"
           /\ req'[p].status = 409)
          => (req[p].i = 0 /\ req[p].reply_email = None)]_position

\* the row of an alias in the store
StoredAlias(alias_id) == CHOOSE a \in aliases : a.id = alias_id

\* C13, as claimed: every successful toggle flips the stored enabled flag
\* (so n completed toggles, sequential or interleaved, leave the initial
\* value negated n times), and its 200 response reports the value it stored.
C13_ToggleFlipsStoredFlag ==
    [][\A p \in Procs :
          (/\ req[p].op = "toggle_alias"
           /\ req[p].pc = "commit"
           /\ req'[p].pc = "done"
           /\ req'[p].status = 200)
          => (/\ StoredAlias(req[p].alias_id)'.enabled
                    = ~ StoredAlias(req[p].alias_id).enabled
              /\ req'[p].body
                    = <<"enabled", StoredAlias(req[p].alias_id)'.enabled>>)]_position

\* a probe of the generator loop: worker p's step from "loop"
Probes(p) == req[p].pc = "loop" /\ req'[p] # req[p]

\* C14: every iteration of the generator loop makes one existence check, of
\* the candidate it has just generated, against the store as it is then; the
\* loop goes on while the candidate is held by a contact and attempts are
\* left, and ends at the first candidate that is absent, which is the
\* result: no probe follows it, and the address the handler goes on with,
\* up to the row it inserts, is that candidate.  The result has been probed:
\* the address generated before the loop is never the one that is used.
C14_FirstAbsentCandidate ==
    [][\A p \in Procs :
          /\ Probes(p)
             => LET absent == ContactByReplyEmail(req'[p].reply_email) = {}
                IN  /\ req'[p].i = req[p].i + 1
                    /\ absent => req'[p].pc = "check"
                    /\ (~ absent /\ req'[p].i < NB_ATTEMPTS)
                       => req'[p].pc = "loop"
          /\ (req'[p].pc = "check" /\ req'[p] # req[p])
             => (Probes(p) /\ req'[p].i >= 1)
          /\ (req[p].pc = "check" /\ req'[p].pc = "commit")
             => /\ req'[p].reply_email = req[p].reply_email
                /\ req'[p].i = req[p].i
                /\ req'[p].contact.reply_email = req[p].reply_email]_position

\* the second attempt was the first whose candidate was absent: two checks
\* were made and the handler goes on with the second candidate, while the
\* store holds the first
C14_Witness ==
    \E p \in Procs :
        /\ req[p].pc = "check"
        /\ req[p].i = 2
        /\ ContactByReplyEmail(req[p].reply_email) = {}
        /\ contacts # {}
        /\ \A c \in contacts : c.gen_email_id # req[p].alias_id

\* C15: the generator loop ends after at most NB_ATTEMPTS existence checks,
\* whatever the store holds, and its probes leave the store unchanged; when
\* the last candidate collides as well, the loop does not fail: the handler
\* goes on with that candidate, and the row it builds for the insert carries
\* it.
C15_LoopEndsWithLastCandidate ==
    [][\A p \in Procs :
          /\ req[p].op = "create_contact_route" => req[p].i <= NB_ATTEMPTS
          /\ req[p].pc = "loop" => req[p].i < NB_ATTEMPTS
          /\ Probes(p)
             => /\ StoreUnchanged
                /\ nextId' = nextId
                /\ req'[p].pc \in {"loop", "check"}
                /\ req[p].i = NB_ATTEMPTS - 1
                   => (req'[p].pc = "check" /\ req'[p].i = NB_ATTEMPTS)
          /\ (/\ req[p].pc = "check"
              /\ req[p].i = NB_ATTEMPTS
              /\ ContactByReplyEmail(req[p].reply_email) # {}
              /\ req'[p].pc = "commit")
             => req'[p].contact.reply_email = req[p].reply_email]_position

\* every candidate collided, and the row about to be inserted carries the
\* last one, which a stored contact holds
C15_Witness ==
    \E p \in Procs :
        /\ req[p].pc = "commit"
        /\ req[p].op = "create_contact_route"
        /\ req[p].i = NB_ATTEMPTS
        /\ ContactByReplyEmail(req[p].contact.reply_email) # {}

\* worker p's commit of an alias mutation succeeds in this step
Commits(p, op) ==
    /\ req[p].op = op
    /\ req[p].pc = "commit"
    /\ req'[p].pc = "done"
    /\ req'[p].status = 200

\* the alias table after the step is the one before it with every row's
\* columns kept, but column col of the alias alias_id
OnlyColumnChanged(alias_id, col) ==
    /\ {a.id : a \in aliases'} = {a.id : a \in aliases}
    /\ \A a \in aliases, b \in aliases' :
          a.id = b.id
          => IF a.id = alias_id
             THEN \A f \in {"id", "user_id", "email", "enabled", "note"} \ {col} :
                     b[f] = a[f]
             ELSE b = a

\* C16: a successful toggle changes only the enabled flag of its alias; a
\* successful update changes only the note of its alias, sets it to the
\* note value of the request body and echoes that value; neither changes
\* another alias, a contact or a log row; and no step of any operation
\* changes the user_id of an alias.
C16_AliasMutationFrame ==
    [][\A p \in Procs :
          /\ Commits(p, "toggle_alias")
             => /\ OnlyColumnChanged(req[p].alias_id, "enabled")
                /\ contacts' = contacts
                /\ logs' = logs
          /\ Commits(p, "update_alias")
             => /\ OnlyColumnChanged(req[p].alias_id, "note")
                /\ StoredAlias(req[p].alias_id)'.note = Get(req[p].data, "note")
                /\ req'[p].body = <<"note", Get(req[p].data, "note")>>
                /\ contacts' = contacts
                /\ logs' = logs
          /\ \A a \in aliases, b \in aliases' :
                a.id = b.id => b.user_id = a.user_id]_position

\* the note of a disabled alias was set to the note of the body, while the
\* other alias is as it was created
C16_Witness ==
    \E p \in Procs :
        /\ IsDone(p, "update_alias")
        /\ req[p].status = 200
        /\ req[p].body = <<"note", S_vip>>
        /\ AliasExists(req[p].alias_id)
        /\ StoredAlias(req[p].alias_id).note = S_vip
        /\ ~ StoredAlias(req[p].alias_id).enabled
        /\ \E a \in aliases : a.id # req[p].alias_id /\ a \in InitAliases

\* C17: list-activities answers with one activity per fetched log row, in
\* the rows' order: the list is as long as the fetched page, the k-th
\* activity carries the k-th row's when as its timestamp, so the activities
\* are most-recent-first as the rows are, none dropped, repeated or moved.
C17_ActivitiesFollowRows ==
    \A p \in Procs :
        (IsDone(p, "get_alias_activities") /\ req[p].status = 200)
        => LET rows == FetchedLogs(req[p])
           IN  /\ Len(req[p].body) = Len(rows)
               /\ \A k \in 1 .. Len(rows) :
                     req[p].body[k]["timestamp"] = rows[k].when
               /\ \A k \in 1 .. Len(rows), j \in 1 .. Len(rows) :
                     k < j => req[p].body[k]["timestamp"]
                                 > req[p].body[j]["timestamp"]

\* a page of two rows of different kinds was answered, the newer row first
C17_Witness ==
    \E p \in Procs :
        /\ IsDone(p, "get_alias_activities")
        /\ req[p].status = 200
        /\ Len(req[p].body) = 2
        /\ req[p].body[1]["timestamp"] > req[p].body[2]["timestamp"]
        /\ req[p].body[1]["action"] = "forward"
        /\ req[p].body[2]["action"] = "reply"

C19_ValidationFirst ==
    [][\A p \in Procs :
          /\ (Enters(p) /\ ~ PassesValidation(req'[p]))
             => /\ req'[p].pc = "done"
                /\ req'[p].status = 400
                /\ StoreUnchanged
                /\ nextId' = nextId
          /\ (req'[p] # req[p] /\ req'[p].status = 403)
             => PassesValidation(req'[p])]_position

\* a list-contacts with a page_id that is not a number, sent by a caller who
\* does not own the alias, was answered 400
C19_Witness ==
    \E p \in Procs :
        /\ IsDone(p, "get_alias_contacts_route")
        /\ req[p].status = 400
        /\ Get(req[p].data, "page_id") = S_x
        /\ AliasExists(req[p].alias_id)
        /\ OwnerOf(req[p].alias_id) # req[p].user

=============================================================================
